---- MODULE Spec2Model ----
(***************************************************************************)
(* Inventory REST service: the Inventory model (service/models.py) and the *)
(* request handlers of service/routes.py, as a state machine over the      *)
(* inventory table, the ORM session of the running request and the last    *)
(* request/response pair.                                                   *)
(*                                                                         *)
(* Python values are tagged records [t, v]: t is "int", "str", "bool" or    *)
(* "none";                                                                  *)
(* a key that a JSON body does not carry is the value Absent.               *)
(***************************************************************************)
EXTENDS Integers, Sequences, FiniteSets, TLC

\* ------------------------------------------------------------------ bounds
\* Number of rows the table's id sequence hands out.
MaxItems == 1
\* Restock requests are only issued while |quantity + amount| <= QtyBound.
QtyBound == 1
\* Number of rows of the stores that list requests are served from.
SeedRows == 2
\* Number of ids handed out where requests on several items are followed.
MaxRows == 2

\* ------------------------------------------------------- program constants
NameLimit == 63
DefaultQuantity == 0
\* Mutant: the restock level defaults to the quantity's default.
DefaultRestockLevel_zero == DefaultQuantity
DefaultRestockLevel == 10

\* --------------------------------------------------------- Python values
IntV(n) == [t |-> "int", v |-> n]
StrV(s) == [t |-> "str", v |-> s]
None == [t |-> "none", v |-> 0]
BoolV(b) == [t |-> "bool", v |-> b]
Absent == [t |-> "absent", v |-> 0]

Fields == {"name", "product_id", "quantity", "condition", "restock_level"}

valid_conditions == {"New", "Opened", "Used", "Refurbished"}

\* dict.get(key, default)
DictGet(data, key, default) == IF data[key] = Absent THEN default ELSE data[key]

\* A fresh Inventory(): every column attribute is None.
NewInventory ==
    [id |-> None, name |-> None, product_id |-> None, quantity |-> None,
     condition |-> None, restock_level |-> None]

\* Inventory.serialize
serialize(self) ==
    [id |-> self.id, name |-> self.name, product_id |-> self.product_id,
     quantity |-> self.quantity, condition |-> self.condition,
     restock_level |-> self.restock_level]

\* Outcome of deserialize: the object with the attributes assigned so far, and
\* the DataValidationError message ("" when none was raised).
Raised(self, msg) == [ok |-> FALSE, error |-> msg, self |-> self]
Returned(self) == [ok |-> TRUE, error |-> "", self |-> self]

\* Mutant: only the name is looked up with data[...].
KeyError_name_only(data, key) == key = "name" /\ data[key] = Absent

\* data[key] raises KeyError when the body does not carry the key.
KeyError(data, key) == data[key] = Absent

\* Mutant: the limit is compared with >=.
name_exceeds_limit_off_by_one(name) == Len(name.v) >= NameLimit

\* len(self.name) > 63; len() of a value that is no string is a TypeError.
name_exceeds_limit(name) == Len(name.v) > NameLimit

\* Mutant: a quantity of 0 is refused as well.
quantity_nonpositive(quantity) == quantity.v <= 0

\* self.quantity < 0; < on a value that is no number is a TypeError.
quantity_negative(quantity) == quantity.v < 0

\* Mutant: the restock level is not checked.
restock_level_unchecked(restock_level) == FALSE

\* self.restock_level < 0
restock_level_negative(restock_level) == restock_level.v < 0

\* Mutant: only the type of the condition is checked.
condition_invalid_type_only(condition) == condition.t # "str"

\* self.condition not in valid_conditions
condition_invalid(condition) ==
    ~(condition.t = "str" /\ condition.v \in valid_conditions)

\* Inventory.deserialize, statement by statement.  KeyError and TypeError
\* become DataValidationError("Invalid inventory data").
deserialize(self, data) ==
    IF KeyError(data, "name") THEN Raised(self, "Invalid inventory data") ELSE
    LET s1 == [self EXCEPT !.name = data["name"]] IN
    IF KeyError(data, "product_id")
        THEN Raised(s1, "Invalid inventory data") ELSE
    LET s2 == [s1 EXCEPT !.product_id = data["product_id"]] IN
    IF KeyError(data, "condition")
        THEN Raised(s2, "Invalid inventory data") ELSE
    LET s3 == [s2 EXCEPT !.condition = data["condition"]] IN
    IF s3.name.t # "str" THEN Raised(s3, "Invalid inventory data") ELSE
    IF name_exceeds_limit(s3.name)
        THEN Raised(s3, "Name exceeds 63-character limit") ELSE
    LET s4 == [s3 EXCEPT !.quantity =
                   DictGet(data, "quantity", IntV(DefaultQuantity))] IN
    IF s4.quantity.t # "int" THEN Raised(s4, "Invalid inventory data") ELSE
    IF quantity_negative(s4.quantity)
        THEN Raised(s4, "Quantity cannot be negative") ELSE
    LET s5 == [s4 EXCEPT !.restock_level =
                   DictGet(data, "restock_level", IntV(DefaultRestockLevel))] IN
    IF s5.restock_level.t # "int"
        THEN Raised(s5, "Invalid inventory data") ELSE
    IF restock_level_negative(s5.restock_level)
        THEN Raised(s5, "Restock level cannot be negative") ELSE
    IF condition_invalid(s5.condition)
        THEN Raised(s5, "Invalid condition") ELSE
    Returned(s5)

\* -------------------------------------------------------- persistence layer
VARIABLES
    db,         \* the inventory table: id -> committed row
    nextId,     \* next value of the table's id sequence
    session,    \* db.session of the request context: id -> loaded object
    last        \* the request being answered and its response ("idle": none)

vars == <<db, nextId, session, last>>

EmptyMap == [i \in {} |-> NewInventory]

\* dict/identity-map assignment m[k] = v
MapSet(m, k, val) ==
    [i \in DOMAIN m \cup {k} |-> IF i = k THEN val ELSE m[i]]

\* Mutant: an id without a row is answered with a new, empty item.
find_or_new(store, sess, by_id) ==
    IF by_id \in DOMAIN sess THEN [found |-> TRUE, obj |-> sess[by_id]]
    ELSE IF by_id \in DOMAIN store THEN [found |-> TRUE, obj |-> store[by_id]]
    ELSE [found |-> TRUE, obj |-> NewInventory]

\* Inventory.find: session.get(cls, by_id) answers from the identity map when
\* the object is loaded there, else from the table; None when no row exists.
find(store, sess, by_id) ==
    IF by_id \in DOMAIN sess THEN [found |-> TRUE, obj |-> sess[by_id]]
    ELSE IF by_id \in DOMAIN store THEN [found |-> TRUE, obj |-> store[by_id]]
    ELSE [found |-> FALSE, obj |-> NewInventory]

\* Mutant: after the flush the table holds the rows of the session only.
commit_session_only(store, sess) ==
    IF DOMAIN sess = {} THEN store ELSE sess

\* db.session.commit(): every object of the session is flushed to the table.
commit(store, sess) ==
    [i \in DOMAIN store \cup DOMAIN sess |->
        IF i \in DOMAIN sess THEN sess[i] ELSE store[i]]

\* db.session.rollback(): pending changes are dropped, objects are expired.
rollback(sess) == EmptyMap

\* Teardown of the request's application context: db.session.remove().
remove(sess) == EmptyMap

\* A handler's outcome: the table, the sequence and the session it leaves, and
\* the response (status, "error" and "message" members, "new_stock", item,
\* and the items of a list response).
NoItem == serialize(NewInventory)

Response(status, error, message, new_stock, item) ==
    [status |-> status, error |-> error, message |-> message,
     new_stock |-> new_stock, item |-> item, items |-> {}]

Outcome(store, next, sess, resp) ==
    [db |-> store, nextId |-> next, session |-> sess, resp |-> resp]

\* Mutant: the failed commit has written the pending changes and nothing is
\* rolled back.
update_without_rollback(store, sess, fault) ==
    IF fault = "commit"
        THEN [ok |-> FALSE, db |-> commit(store, sess), session |-> sess]
        ELSE [ok |-> TRUE, db |-> commit(store, sess), session |-> sess]

\* Inventory.update: commit, or rollback and DataValidationError.
update(store, sess, fault) ==
    IF fault = "commit"
        THEN [ok |-> FALSE, db |-> store, session |-> rollback(sess)]
        ELSE [ok |-> TRUE, db |-> commit(store, sess), session |-> sess]

\* ------------------------------------------------------- request handlers
BadRequest(message) == Response(400, "Bad Request", message, None, NoItem)
NotFound(message) == Response(404, "Not Found", message, None, NoItem)
\* Mutant: a wrong content type is answered as a bad request.
UnsupportedMediaType_as_bad_request(message) ==
    Response(400, "Bad Request", message, None, NoItem)

UnsupportedMediaType(message) ==
    Response(415, "Unsupported Media Type", message, None, NoItem)
\* handle_unexpected_exceptions: an uncaught exception is answered 500.
InternalServerError(message) ==
    Response(500, "Internal Server Error", message, None, NoItem)

\* InventoryResource.get
InventoryResource_get(store, next, sess, inventory_id, fault) ==
    IF fault = "find"
        THEN Outcome(store, next, sess, InternalServerError("find failed")) ELSE
    LET inventory == find(store, sess, inventory_id) IN
    IF ~inventory.found
        THEN Outcome(store, next, sess, NotFound("Inventory item was not found."))
        ELSE Outcome(store, next, MapSet(sess, inventory_id, inventory.obj),
                     Response(200, "", "", None, serialize(inventory.obj)))

\* Mutant: the body is deserialized as it came, without the stored values.
updated_data_unmerged(item, data) == data

\* InventoryResource.put: the body's values over the stored item's values.
updated_data(item, data) == [k \in Fields |-> DictGet(data, k, item[k])]

\* Mutant: an id in the body that no stored row has becomes the id of the
\* updated row.
InventoryResource_put_takes_id(store, next, sess, inventory_id, isJson, data, fault) ==
    IF fault = "find"
        THEN Outcome(store, next, sess, InternalServerError("find failed")) ELSE
    LET item == find(store, sess, inventory_id) IN
    IF ~item.found
        THEN Outcome(store, next, sess, NotFound("Inventory item not found.")) ELSE
    LET sess0 == MapSet(sess, inventory_id, item.obj) IN
    IF ~isJson
        THEN Outcome(store, next, sess0,
                     BadRequest("Content-Type must be application/json")) ELSE
    LET d == deserialize(item.obj, updated_data(item.obj, data))
        moved == data["id"].t = "int" /\ data["id"].v \notin DOMAIN store
        key == IF moved THEN data["id"].v ELSE inventory_id
        obj == [d.self EXCEPT !.id = IntV(key)]
        others == [i \in DOMAIN store \ {inventory_id} |-> store[i]]
        sess1 == MapSet(sess, key, obj)
    IN  IF ~d.ok THEN Outcome(store, next, sess1, BadRequest(d.error))
        ELSE IF fault = "commit"
            THEN Outcome(store, next, rollback(sess1), BadRequest("commit failed"))
        ELSE Outcome(commit(others, sess1), next, sess1,
                     Response(200, "", "", None, serialize(obj)))

\* Mutant: the merged object is committed before the outcome of the
\* validation is looked at.
InventoryResource_put_commits_first(store, next, sess, inventory_id, isJson, data, fault) ==
    IF fault = "find"
        THEN Outcome(store, next, sess, InternalServerError("find failed")) ELSE
    LET item == find(store, sess, inventory_id) IN
    IF ~item.found
        THEN Outcome(store, next, sess, NotFound("Inventory item not found.")) ELSE
    LET sess0 == MapSet(sess, inventory_id, item.obj) IN
    IF ~isJson
        THEN Outcome(store, next, sess0,
                     BadRequest("Content-Type must be application/json")) ELSE
    LET d == deserialize(item.obj, updated_data(item.obj, data))
        sess1 == MapSet(sess, inventory_id, d.self)
        u == update(store, sess1, fault)
    IN  IF ~u.ok
            THEN Outcome(u.db, next, u.session, BadRequest("commit failed"))
        ELSE IF ~d.ok THEN Outcome(u.db, next, u.session, BadRequest(d.error))
        ELSE Outcome(u.db, next, u.session,
                     Response(200, "", "", None, serialize(d.self)))

\* InventoryResource.put
InventoryResource_put(store, next, sess, inventory_id, isJson, data, fault) ==
    IF fault = "find"
        THEN Outcome(store, next, sess, InternalServerError("find failed")) ELSE
    LET item == find(store, sess, inventory_id) IN
    IF ~item.found
        THEN Outcome(store, next, sess, NotFound("Inventory item not found.")) ELSE
    LET sess0 == MapSet(sess, inventory_id, item.obj) IN
    IF ~isJson
        THEN Outcome(store, next, sess0,
                     BadRequest("Content-Type must be application/json")) ELSE
    LET d == deserialize(item.obj, updated_data(item.obj, data))
        sess1 == MapSet(sess, inventory_id, d.self)
        u == update(store, sess1, fault)
    IN  IF ~d.ok THEN Outcome(store, next, sess1, BadRequest(d.error))
        ELSE IF ~u.ok
            THEN Outcome(u.db, next, u.session, BadRequest("commit failed"))
        ELSE Outcome(u.db, next, u.session,
                     Response(200, "", "", None, serialize(d.self)))

\* Mutant: an id that is not found is answered 404.
InventoryResource_delete_not_found(store, next, sess, inventory_id, fault) ==
    LET NoContent == Response(204, "", "", None, NoItem) IN
    IF fault = "find" THEN Outcome(store, next, sess, NoContent) ELSE
    LET inventory == find(store, sess, inventory_id) IN
    IF ~inventory.found
        THEN Outcome(store, next, sess, NotFound("Inventory item not found.")) ELSE
    IF fault = "commit"
        THEN Outcome(store, next, rollback(sess), NoContent) ELSE
    LET flushed == commit(store, sess) IN
    Outcome([i \in DOMAIN flushed \ {inventory_id} |-> flushed[i]], next,
            [i \in DOMAIN sess \ {inventory_id} |-> sess[i]], NoContent)

\* Inventory.delete after Inventory.find, inside InventoryResource.delete's
\* try block: every exception is answered 204.
InventoryResource_delete(store, next, sess, inventory_id, fault) ==
    LET NoContent == Response(204, "", "", None, NoItem) IN
    IF fault = "find" THEN Outcome(store, next, sess, NoContent) ELSE
    LET inventory == find(store, sess, inventory_id) IN
    IF ~inventory.found THEN Outcome(store, next, sess, NoContent) ELSE
    IF fault = "commit"
        THEN Outcome(store, next, rollback(sess), NoContent) ELSE
    LET flushed == commit(store, sess) IN
    Outcome([i \in DOMAIN flushed \ {inventory_id} |-> flushed[i]], next,
            [i \in DOMAIN sess \ {inventory_id} |-> sess[i]], NoContent)

\* Mutant: an id in the payload that no stored row has becomes the id of the
\* new row, and the sequence is not asked.
InventoryCollection_post_keeps_id(store, next, sess, isJson, data, fault) ==
    IF ~isJson
        THEN Outcome(store, next, sess,
                     UnsupportedMediaType("Content-Type must be application/json"))
    ELSE
    LET d == deserialize(NewInventory, data)
        given == data["id"].t = "int" /\ data["id"].v \notin DOMAIN store
        key == IF given THEN data["id"].v ELSE next
        inventory == [d.self EXCEPT !.id = IntV(key)]
    IN  IF ~d.ok THEN Outcome(store, next, sess, BadRequest(d.error))
        ELSE IF fault = "commit"
            THEN Outcome(store, next, rollback(sess), BadRequest("commit failed"))
        ELSE Outcome(MapSet(commit(store, sess), key, inventory),
                     IF given THEN next ELSE next + 1,
                     MapSet(sess, key, inventory),
                     Response(201, "", "", None, serialize(inventory)))

\* InventoryCollection.post with Inventory.create
InventoryCollection_post(store, next, sess, isJson, data, fault) ==
    IF ~isJson
        THEN Outcome(store, next, sess,
                     UnsupportedMediaType("Content-Type must be application/json"))
    ELSE
    LET d == deserialize(NewInventory, data)
        inventory == [d.self EXCEPT !.id = IntV(next)]
    IN  IF ~d.ok THEN Outcome(store, next, sess, BadRequest(d.error))
        ELSE IF fault = "commit"
            THEN Outcome(store, next, rollback(sess), BadRequest("commit failed"))
        ELSE Outcome(MapSet(commit(store, sess), next, inventory), next + 1,
                     MapSet(sess, next, inventory),
                     Response(201, "", "", None, serialize(inventory)))

\* int(x) of a JSON value: an integer is itself, a string is parsed as a
\* decimal literal (ValueError when it is none), None is a TypeError.
DecimalLiterals == ("1" :> 1) @@ ("-1" :> (-1)) @@ ("0" :> 0) @@ ("7" :> 7)

\* Mutant: a value that is no integer counts as 0.
int_lenient(x) ==
    IF x.t = "int" THEN [ok |-> TRUE, n |-> x.v]
    ELSE IF x.t = "str" /\ x.v \in DOMAIN DecimalLiterals
        THEN [ok |-> TRUE, n |-> DecimalLiterals[x.v]]
    ELSE [ok |-> TRUE, n |-> 0]

int(x) ==
    IF x.t = "int" THEN [ok |-> TRUE, n |-> x.v]
    ELSE IF x.t = "str" /\ x.v \in DOMAIN DecimalLiterals
        THEN [ok |-> TRUE, n |-> DecimalLiterals[x.v]]
    ELSE [ok |-> FALSE, n |-> 0]

\* Mutant: the amount replaces the quantity instead of being added to it.
_process_quantity_update_assigns(store, next, sess, item, data, fault) ==
    LET additional_stock == int(data["quantity"]) IN
    IF ~additional_stock.ok
        THEN Outcome(store, next, sess,
                     Response(400, "Invalid quantity provided",
                              "Quantity must be an integer", None, NoItem)) ELSE
    LET obj == [item EXCEPT !.quantity = IntV(additional_stock.n)]
        u == update(store, MapSet(sess, item.id.v, obj), fault)
    IN  IF ~u.ok
            THEN Outcome(u.db, next, u.session, InternalServerError("commit failed"))
        ELSE Outcome(u.db, next, u.session,
                     Response(200, "", "Stock level updated", obj.quantity, NoItem))

\* RestockResource._process_quantity_update
_process_quantity_update(store, next, sess, item, data, fault) ==
    LET additional_stock == int(data["quantity"]) IN
    IF ~additional_stock.ok
        THEN Outcome(store, next, sess,
                     Response(400, "Invalid quantity provided",
                              "Quantity must be an integer", None, NoItem)) ELSE
    LET obj == [item EXCEPT !.quantity = IntV(item.quantity.v + additional_stock.n)]
        u == update(store, MapSet(sess, item.id.v, obj), fault)
    IN  IF ~u.ok
            THEN Outcome(u.db, next, u.session, InternalServerError("commit failed"))
        ELSE Outcome(u.db, next, u.session,
                     Response(200, "", "Stock level updated", obj.quantity, NoItem))

\* Mutant: the threshold is compared with <=.
_check_restock_status_at_level(store, next, sess, item) ==
    IF item.quantity.v <= item.restock_level.v
        THEN Outcome(store, next, sess,
                     Response(200, "", "Restock alert triggered", None, NoItem))
        ELSE Outcome(store, next, sess,
                     Response(200, "",
                        "Stock level is above the restock threshold. No action needed.",
                        None, NoItem))

\* RestockResource._check_restock_status
_check_restock_status(store, next, sess, item) ==
    IF item.quantity.v < item.restock_level.v
        THEN Outcome(store, next, sess,
                     Response(200, "", "Restock alert triggered", None, NoItem))
        ELSE Outcome(store, next, sess,
                     Response(200, "",
                        "Stock level is above the restock threshold. No action needed.",
                        None, NoItem))

\* Mutant: the format of the request is checked before the item is looked up.
RestockResource_post_format_first(store, next, sess, inventory_id, isJson, data, fault) ==
    IF ~isJson
        THEN Outcome(store, next, sess,
                     BadRequest("Content-Type must be application/json")) ELSE
    IF fault = "find"
        THEN Outcome(store, next, sess, InternalServerError("find failed")) ELSE
    LET item == find(store, sess, inventory_id) IN
    IF ~item.found
        THEN Outcome(store, next, sess, NotFound("Inventory item not found")) ELSE
    LET sess0 == MapSet(sess, inventory_id, item.obj) IN
    IF data["quantity"] # Absent
        THEN _process_quantity_update(store, next, sess0, item.obj, data, fault)
        ELSE _check_restock_status(store, next, sess0, item.obj)

\* RestockResource.post
RestockResource_post(store, next, sess, inventory_id, isJson, data, fault) ==
    IF fault = "find"
        THEN Outcome(store, next, sess, InternalServerError("find failed")) ELSE
    LET item == find(store, sess, inventory_id) IN
    IF ~item.found
        THEN Outcome(store, next, sess, NotFound("Inventory item not found")) ELSE
    LET sess0 == MapSet(sess, inventory_id, item.obj) IN
    IF ~isJson
        THEN Outcome(store, next, sess0,
                     BadRequest("Content-Type must be application/json")) ELSE
    IF data["quantity"] # Absent
        THEN _process_quantity_update(store, next, sess0, item.obj, data, fault)
        ELSE _check_restock_status(store, next, sess0, item.obj)

\* -------------------------------------------------------------- list handler
\* Truth value of a Python value in "if x:".
truthy(x) ==
    CASE x.t = "none" -> FALSE
      [] x.t = "str" -> x.v # ""
      [] x.t = "int" -> x.v # 0
      [] x.t = "bool" -> x.v

\* flask_restx inputs.boolean of a query-string value.
BooleanLiterals ==
    ("true" :> TRUE) @@ ("1" :> TRUE) @@ ("false" :> FALSE) @@ ("0" :> FALSE)
    @@ ("" :> FALSE)

inputs_boolean(x) ==
    IF x.v \in DOMAIN BooleanLiterals
        THEN [ok |-> TRUE, b |-> BooleanLiterals[x.v]]
        ELSE [ok |-> FALSE, b |-> FALSE]

\* choices of inventory_parser's "condition" argument
parser_choices == {"New", "Used", "Refurbished"}

\* inventory_parser.parse_args(): each argument of the query string converted
\* by its type (None when the query string lacks it); a value its type or
\* its choices reject aborts the request with 400.
parse_args(query) ==
    LET product_id == IF query.product_id = Absent THEN [ok |-> TRUE, n |-> 0]
                      ELSE int(query.product_id)
        below == IF query.below_restock_level = Absent
                     THEN [ok |-> TRUE, b |-> FALSE]
                     ELSE inputs_boolean(query.below_restock_level)
    IN  [ok |-> /\ product_id.ok
                /\ below.ok
                /\ query.condition = Absent \/ query.condition.v \in parser_choices,
         args |->
            [name |-> IF query.name = Absent THEN None ELSE query.name,
             product_id |-> IF query.product_id = Absent THEN None
                            ELSE IntV(product_id.n),
             condition |-> IF query.condition = Absent THEN None
                           ELSE query.condition,
             below_restock_level |->
                 IF query.below_restock_level = Absent THEN None
                 ELSE BoolV(below.b)]]

\* Mutant: keys outside the four filters are not looked at.
unexpected_keys_ignored(query) == FALSE

\* set(request.args.keys()) - valid_keys is not empty
unexpected_keys(query) == query.other

\* Inventory.all and the query predicates: the ids of the selected rows.
all(store) == DOMAIN store

find_by_name(store, name) == {i \in DOMAIN store : store[i].name = name}

find_by_product_id(store, product_id) ==
    {i \in DOMAIN store : store[i].product_id = product_id}

find_by_condition(store, condition) ==
    {i \in DOMAIN store : store[i].condition = condition}

\* Mutant: items at their restock level are selected too.
find_at_or_below_restock_level(store) ==
    {i \in DOMAIN store : store[i].quantity.v <= store[i].restock_level.v}

find_below_restock_level(store) ==
    {i \in DOMAIN store : store[i].quantity.v < store[i].restock_level.v}

\* InventoryCollection.get.  The rows a query selects are loaded into the
\* session; the response is the list of their serializations, kept as a set
\* because the queries have no ORDER BY.
InventoryCollection_get(store, next, sess, query) ==
    LET parsed == parse_args(query) IN
    IF ~parsed.ok
        THEN Outcome(store, next, sess,
                     BadRequest("Input payload validation failed")) ELSE
    IF unexpected_keys(query)
        THEN Outcome(store, next, sess, BadRequest("Invalid query parameters"))
    ELSE
    LET args == parsed.args
        items ==
            IF truthy(args.name) THEN find_by_name(store, args.name)
            ELSE IF truthy(args.product_id)
                THEN find_by_product_id(store, args.product_id)
            ELSE IF truthy(args.condition)
                THEN find_by_condition(store, args.condition)
            ELSE IF truthy(args.below_restock_level)
                THEN find_below_restock_level(store)
            ELSE all(store)
        loaded == [i \in DOMAIN sess \cup items |->
                      IF i \in DOMAIN sess THEN sess[i] ELSE store[i]]
        results == {serialize(loaded[i]) : i \in items}
    IN  Outcome(store, next, loaded,
                [Response(200, "", "", None, NoItem) EXCEPT !.items = results])

\* ------------------------------------------------------------ request inputs
\* Names of 63 and of 64 characters, either side of the column's limit.
Name63 == "Hex bolt M8x40 zinc plated steel DIN 933 full thread box of 100"
Name64 == "Hex bolt M8x40 zinc plated steel DIN 933 full thread box of 100s"

NameValues == {Absent, StrV(""), StrV("Bolt"), StrV(Name63), StrV(Name64)}
ProductIdValues == {Absent, IntV(0), IntV(7)}
QuantityValues == {Absent, IntV(-1), IntV(0), IntV(1), StrV("ten")}
ConditionValues ==
    {Absent, StrV("Broken")} \cup {StrV(c) : c \in valid_conditions}
RestockLevelValues == {Absent, IntV(-1), IntV(0), IntV(1)}

Values(k) ==
    CASE k = "name" -> NameValues
      [] k = "product_id" -> ProductIdValues
      [] k = "quantity" -> QuantityValues
      [] k = "condition" -> ConditionValues
      [] k = "restock_level" -> RestockLevelValues

\* The JSON object {} and a complete valid item.
NoBody == [k \in Fields \cup {"id"} |-> Absent]
BaseBody ==
    [id |-> Absent, name |-> StrV("Bolt"), product_id |-> IntV(7),
     quantity |-> IntV(1), condition |-> StrV("New"), restock_level |-> IntV(1)]

\* Values of the one-key bodies: every quantity, and for the other keys the
\* value of the complete item and the values deserialize rejects.
PartialValues(k) ==
    IF k = "quantity" THEN QuantityValues
    ELSE {w \in Values(k) :
            w \in {BaseBody[k], StrV(Name64), IntV(-1), StrV("Broken")}}

\* Request bodies: the complete item with one key changed or dropped, the
\* body {} and the bodies of one key.
Bodies ==
    {[BaseBody EXCEPT ![k] = val] : <<k, val>> \in
        UNION {{<<f, w>> : w \in Values(f)} : f \in Fields}}
    \cup
    {NoBody}
    \cup
    {[NoBody EXCEPT ![k] = val] : <<k, val>> \in
        UNION {{<<f, w>> : w \in PartialValues(f)} : f \in Fields}}

\* Restock payloads: {} or {"quantity": x}.
RestockBodies ==
    {[NoBody EXCEPT !["quantity"] = x] :
        x \in {Absent, IntV(-1), IntV(1), StrV("1"), StrV("ten"), None}}

\* Query strings of a list request: the raw value of each filter (Absent
\* when the query string lacks it) and whether some other key is present.
Query(name, product_id, condition, below_restock_level, other) ==
    [name |-> name, product_id |-> product_id, condition |-> condition,
     below_restock_level |-> below_restock_level, other |-> other]

\* Every combination of a few values of the filters, the other values one
\* filter at a time, and requests that carry an unrecognized key as well.
Queries ==
    {Query(n, p, c, b, FALSE) :
        n \in {Absent, StrV(""), StrV("Bolt")},
        p \in {Absent, StrV("0"), StrV("7")},
        c \in {Absent, StrV("New")},
        b \in {Absent, StrV("true")}}
    \cup {Query(StrV("bolt"), Absent, Absent, Absent, FALSE),
          Query(Absent, StrV("seven"), Absent, Absent, FALSE),
          Query(Absent, Absent, Absent, StrV("false"), FALSE),
          Query(Absent, Absent, Absent, StrV("maybe"), FALSE)}
    \cup {Query(Absent, Absent, StrV(c), Absent, FALSE) :
            c \in {"Opened", "Used", "Refurbished", "Broken"}}
    \cup {Query(Absent, Absent, Absent, Absent, TRUE),
          Query(StrV("Bolt"), Absent, Absent, Absent, TRUE),
          Query(Absent, StrV("7"), Absent, Absent, TRUE),
          Query(Absent, StrV("seven"), Absent, Absent, TRUE),
          Query(Absent, Absent, StrV("New"), Absent, TRUE),
          Query(Absent, Absent, StrV("Broken"), Absent, TRUE),
          Query(Absent, Absent, Absent, StrV("true"), TRUE),
          Query(StrV("Bolt"), StrV("7"), StrV("New"), StrV("true"), TRUE)}

\* Ids a request may name: every id the sequence can hand out and one more.
RequestIds == 1 .. (MaxItems + 1)

\* Store faults: none, Inventory.find raises, db.session.commit raises.  A
\* handler whose find raises never reads the body, so such a request is
\* sent with the body {} only.
Faults == {"none", "find", "commit"}

\* ------------------------------------------------------------------ actions
NoResponse == Response(0, "", "", None, NoItem)

Idle ==
    [op |-> "idle", id |-> 0, json |-> TRUE, data |-> NoBody, fault |-> "none",
     pre |-> EmptyMap, next |-> 0, resp |-> NoResponse]

Init ==
    /\ db = EmptyMap
    /\ nextId = 1
    /\ session = EmptyMap
    /\ last = Idle

\* One request is answered at a time: the handler runs to its response.  At
\* most cap ids are handed out.
Serve(cap, op, id, isJson, data, fault, out) ==
    /\ last.op = "idle"
    /\ out.nextId = nextId \/ out.nextId <= cap + 1
    /\ \A i \in DOMAIN out.db :
          /\ out.db[i].quantity.v <= QtyBound
          /\ out.db[i].quantity.v >= 0 - QtyBound
    /\ db' = out.db
    /\ nextId' = out.nextId
    /\ session' = out.session
    /\ last' = [op |-> op, id |-> id, json |-> isJson, data |-> data,
                fault |-> fault, pre |-> db, next |-> nextId, resp |-> out.resp]

\* A request of the service's full input space, with up to MaxItems ids.
Answer(op, id, isJson, data, fault, out) ==
    /\ last.op = "idle"
    /\ out.nextId = nextId \/ out.nextId <= MaxItems + 1
    /\ \A i \in DOMAIN out.db :
          /\ out.db[i].quantity.v <= QtyBound
          /\ out.db[i].quantity.v >= 0 - QtyBound
    /\ db' = out.db
    /\ nextId' = out.nextId
    /\ session' = out.session
    /\ last' = [op |-> op, id |-> id, json |-> isJson, data |-> data,
                fault |-> fault, pre |-> db, next |-> nextId, resp |-> out.resp]

Create ==
    \E isJson \in BOOLEAN, fault \in {"none", "commit"} :
        \E data \in (IF isJson THEN Bodies ELSE {NoBody}) :
            Answer("create", 0, isJson, data, fault,
                   InventoryCollection_post(db, nextId, session, isJson, data, fault))

Get ==
    \E id \in RequestIds, fault \in {"none", "find"} :
        Answer("get", id, TRUE, NoBody, fault,
               InventoryResource_get(db, nextId, session, id, fault))

Put ==
    \E id \in RequestIds, isJson \in BOOLEAN, fault \in Faults :
        \E data \in (IF isJson /\ fault # "find" THEN Bodies ELSE {NoBody}) :
            Answer("put", id, isJson, data, fault,
                   InventoryResource_put(db, nextId, session, id, isJson, data, fault))

Delete ==
    \E id \in RequestIds, fault \in Faults :
        Answer("delete", id, TRUE, NoBody, fault,
               InventoryResource_delete(db, nextId, session, id, fault))

Restock ==
    \E id \in RequestIds, isJson \in BOOLEAN, fault \in Faults :
        \E data \in (IF isJson /\ fault # "find" THEN RestockBodies ELSE {NoBody}) :
            Answer("restock", id, isJson, data, fault,
                   RestockResource_post(db, nextId, session, id, isJson, data, fault))

\* A list request; its query string is kept as the request's data.
List ==
    \E query \in Queries :
        Answer("list", 0, TRUE, query, "none",
               InventoryCollection_get(db, nextId, session, query))

\* The response is sent and the request's application context is popped:
\* Flask-SQLAlchemy removes the session.
Teardown ==
    /\ last.op # "idle"
    /\ session' = remove(session)
    /\ last' = Idle
    /\ UNCHANGED <<db, nextId>>

Next == Create \/ Get \/ Put \/ Delete \/ Restock \/ List \/ Teardown

Spec == Init /\ [][Next]_vars

\* ------------------------------------------------- requests on several items
\* Bodies of creates and PUTs: complete items, with and without an "id" key,
\* a change of one field, a change that carries another id, and a change
\* that deserialize rejects after it has assigned the name.
RowBodies ==
    {BaseBody,
     [BaseBody EXCEPT !["id"] = IntV(1)],
     [BaseBody EXCEPT !["id"] = IntV(2), !["name"] = StrV("Nut")],
     [NoBody EXCEPT !["quantity"] = IntV(0)],
     [NoBody EXCEPT !["id"] = IntV(2), !["name"] = StrV("Nut")],
     [NoBody EXCEPT !["name"] = StrV("Nut"), !["quantity"] = IntV(-1)]}

RowRestockBodies ==
    {[NoBody EXCEPT !["quantity"] = x] :
        x \in {Absent, IntV(1), IntV(-1), StrV("ten")}}

RowIds == 1 .. (MaxRows + 1)

CreateRow ==
    \E data \in RowBodies, fault \in {"none", "commit"} :
        Serve(MaxRows, "create", 0, TRUE, data, fault,
              InventoryCollection_post(db, nextId, session, TRUE, data, fault))

PutRow ==
    \E id \in RowIds, fault \in Faults :
        \E data \in (IF fault # "find" THEN RowBodies ELSE {NoBody}) :
            Serve(MaxRows, "put", id, TRUE, data, fault,
                  InventoryResource_put(db, nextId, session, id, TRUE, data, fault))

RestockRow ==
    \E id \in RowIds, fault \in Faults :
        \E data \in (IF fault # "find" THEN RowRestockBodies ELSE {NoBody}) :
            Serve(MaxRows, "restock", id, TRUE, data, fault,
                  RestockResource_post(db, nextId, session, id, TRUE, data, fault))

DeleteRow ==
    \E id \in RowIds, fault \in Faults :
        Serve(MaxRows, "delete", id, TRUE, NoBody, fault,
              InventoryResource_delete(db, nextId, session, id, fault))

RowsNext == CreateRow \/ PutRow \/ RestockRow \/ DeleteRow \/ Teardown

RowsSpec == Init /\ [][RowsNext]_vars

\* ------------------------------------------------- two restocks at one time
\* Two restock requests are in progress at once, each in its own worker with
\* its own session. A request reads the item (a SELECT), and later adds the
\* amount to the object it read and commits (an UPDATE of the row with the
\* object's values); the other request may run between the two. Here
\* session[r] is the session of request r and last[r] its progress: the
\* request, the table when it arrived, where it stands and its response.
Requests == {1, 2}

ConcurrentAmounts == {IntV(1), IntV(-1), StrV("ten"), Absent}

ConcurrentStores ==
    {(1 :> [BaseBody EXCEPT !["id"] = IntV(1), !["quantity"] = IntV(q)]) :
        q \in 0 .. QtyBound}

ConcurrentInit ==
    /\ db \in ConcurrentStores
    /\ nextId = 2
    /\ session = [r \in Requests |-> EmptyMap]
    /\ \E ids \in [Requests -> {1, 2}], amounts \in [Requests -> ConcurrentAmounts] :
           last = [r \in Requests |->
                      [op |-> "restock", id |-> ids[r], json |-> TRUE,
                       data |-> [NoBody EXCEPT !["quantity"] = amounts[r]],
                       fault |-> "none", pre |-> db, next |-> nextId,
                       pc |-> "start", resp |-> NoResponse]]

\* RestockResource._get_inventory_item in request r
GetInventoryItem(r) ==
    /\ last[r].pc = "start"
    /\ LET item == find(db, session[r], last[r].id) IN
           IF ~item.found
               THEN /\ session' = session
                    /\ last' = [last EXCEPT ![r].pc = "done",
                                   ![r].resp = NotFound("Inventory item not found")]
               ELSE /\ session' = [session EXCEPT
                                      ![r] = MapSet(@, last[r].id, item.obj)]
                    /\ last' = [last EXCEPT ![r].pc = "found"]
    /\ UNCHANGED <<db, nextId>>

\* The rest of RestockResource.post in request r, with the item it has read:
\* _process_quantity_update when the body has a quantity, otherwise
\* _check_restock_status.
UpdateOrCheck(r) ==
    /\ last[r].pc = "found"
    /\ LET item == session[r][last[r].id]
           out == IF last[r].data["quantity"] # Absent
                      THEN _process_quantity_update(db, nextId, session[r], item,
                                                    last[r].data, last[r].fault)
                      ELSE _check_restock_status(db, nextId, session[r], item)
       IN  /\ db' = out.db
           /\ session' = [session EXCEPT ![r] = out.session]
           /\ last' = [last EXCEPT ![r].pc = "done", ![r].resp = out.resp]
    /\ UNCHANGED nextId

ConcurrentNext == \E r \in Requests : GetInventoryItem(r) \/ UpdateOrCheck(r)

ConcurrentSpec == ConcurrentInit /\ [][ConcurrentNext]_vars

\* ------------------------------------------------------- listing a filled store
\* Rows that creates have stored: two names that differ in case only, two
\* product ids, two conditions, a quantity below and one at the restock level.
SeedItems ==
    {[name |-> StrV(n), product_id |-> IntV(p), quantity |-> IntV(q),
      condition |-> StrV(c), restock_level |-> IntV(1)] :
        n \in {"Bolt", "bolt"}, p \in {0, 7}, c \in {"New", "Used"},
        q \in {0, 1}}

\* The table after n creates of such rows: ids 1 .. n.
SeedStores(n) ==
    {[i \in 1 .. n |-> [id |-> IntV(i)] @@ f[i]] : f \in [1 .. n -> SeedItems]}

ListInit ==
    /\ \E n \in 0 .. SeedRows :
          /\ db \in SeedStores(n)
          /\ nextId = n + 1
    /\ session = EmptyMap
    /\ last = Idle

ListNext == List \/ Teardown

ListSpec == ListInit /\ [][ListNext]_vars

\* ------------------------------------------- serialize / deserialize round trip
\* Items that satisfy the rules of the data model, before create() (id None)
\* and after it.
RoundTripItems ==
    {[id |-> i, name |-> StrV(n), product_id |-> IntV(p), quantity |-> IntV(q),
      condition |-> StrV(c), restock_level |-> IntV(r)] :
        i \in {None, IntV(1)}, n \in {"B", "Bolt", Name63}, p \in {0, 7},
        q \in {0, 1}, c \in valid_conditions, r \in {0, DefaultRestockLevel}}

\* The items deserialized into: a new Inventory() and a stored item.
RoundTripTargets == {NewInventory, [id |-> IntV(2)] @@ BaseBody}

\* target.deserialize(x.serialize()), then serialize() of the result.  The
\* dictionary is kept as the request's data, the target's id (0: None) as its
\* id and the outcome as the response.
RoundTrip ==
    \E x \in RoundTripItems, target \in RoundTripTargets :
        LET d == deserialize(target, serialize(x)) IN
        Answer("roundtrip", target.id.v, TRUE, serialize(x), "none",
               Outcome(db, nextId, session,
                       Response(0, "", d.error, None, serialize(d.self))))

RoundTripNext == RoundTrip \/ Teardown

RoundTripSpec == Init /\ [][RoundTripNext]_vars

\* ------------------------------------------------------------------- claims
\* The request answered last was a restock of a stored item, sent as JSON and
\* served without a store fault.
RestockServed ==
    /\ last.op = "restock"
    /\ last.json
    /\ last.fault = "none"
    /\ last.id \in DOMAIN last.pre

\* C1: every stored item has quantity >= 0 and restock_level >= 0, whatever
\* requests were served; a restock by a negative amount never stores a
\* negative quantity.
C1_StockNeverNegative ==
    \A i \in DOMAIN db :
        db[i].quantity.v >= 0 /\ db[i].restock_level.v >= 0

\* C2: a restock with an integer quantity n on an item with quantity q answers
\* 200 "Stock level updated" with new_stock = q + n, stores q + n and leaves
\* the other columns of the item as they were.
C2_RestockAddsQuantity ==
    (RestockServed /\ last.data["quantity"].t = "int") =>
        LET before == last.pre[last.id]
            sum == IntV(before.quantity.v + last.data["quantity"].v)
        IN  /\ last.resp.status = 200
            /\ last.resp.message = "Stock level updated"
            /\ last.resp.new_stock = sum
            /\ last.id \in DOMAIN db
            /\ db[last.id] = [before EXCEPT !.quantity = sum]

C2_Witness ==
    /\ RestockServed
    /\ last.data["quantity"] = IntV(1)
    /\ last.pre[last.id].quantity = IntV(0)
    /\ last.resp.status = 200
    /\ db[last.id].quantity = IntV(1)

\* C3: a restock without a quantity on an item whose quantity is below its
\* restock_level raises the stored quantity to restock_level and answers 200
\* "Stock level updated to restock level" with new_stock = restock_level.
C3_AutoRestock ==
    (/\ RestockServed
     /\ last.data["quantity"] = Absent
     /\ last.pre[last.id].quantity.v < last.pre[last.id].restock_level.v) =>
        /\ last.resp.status = 200
        /\ last.resp.message = "Stock level updated to restock level"
        /\ last.resp.new_stock = last.pre[last.id].restock_level
        /\ last.id \in DOMAIN db
        /\ db[last.id].quantity = last.pre[last.id].restock_level

\* C4: a restock without a quantity on an item whose quantity is at or above
\* its restock_level answers 200 with the no-action message and changes no
\* stored item.
C4_NoActionNeeded ==
    (/\ RestockServed
     /\ last.data["quantity"] = Absent
     /\ last.pre[last.id].quantity.v >= last.pre[last.id].restock_level.v) =>
        /\ last.resp.status = 200
        /\ last.resp.message =
              "Stock level is above the restock threshold. No action needed."
        /\ db = last.pre

C4_Witness ==
    /\ RestockServed
    /\ last.data["quantity"] = Absent
    /\ last.pre[last.id].quantity = last.pre[last.id].restock_level
    /\ last.resp.message =
          "Stock level is above the restock threshold. No action needed."
    /\ db = last.pre

\* C5: a PUT answered 400 leaves the table as it was, and nothing of the
\* rejected request outlives it: the session is empty once the request is
\* over, so a later GET answers with the committed row.
C5_RejectedPutChangesNothing ==
    /\ (last.op = "put" /\ last.resp.status = 400) => db = last.pre
    /\ last.op = "idle" => session = EmptyMap
    /\ (last.op = "get" /\ last.resp.status = 200) =>
          last.resp.item = serialize(last.pre[last.id])

C5_Witness ==
    /\ last.op = "put"
    /\ last.id \in DOMAIN last.pre
    /\ last.data["quantity"] = IntV(-1)
    /\ last.resp.status = 400
    /\ last.resp.message = "Quantity cannot be negative"
    /\ session[last.id].quantity = IntV(-1)
    /\ db[last.id].quantity.v >= 0

\* A complete create payload that satisfies every rule of the data model.
ValidPayload(data) ==
    /\ data["name"].t = "str" /\ Len(data["name"].v) <= 63
    /\ data["product_id"].t = "int"
    /\ data["quantity"].t = "int" /\ data["quantity"].v >= 0
    /\ data["restock_level"].t = "int" /\ data["restock_level"].v >= 0
    /\ data["condition"].t = "str"
    /\ data["condition"].v \in {"New", "Opened", "Used", "Refurbished"}

\* The request answered last was a create sent as JSON.
CreatePosted == last.op = "create" /\ last.json

\* C6: a create with a valid payload answers 201 with an id no stored item
\* had, and a GET of that id in a following request returns the payload's
\* name, product_id, quantity, condition and restock_level.
C6_CreateRoundTrip ==
    (CreatePosted /\ last.fault = "none" /\ ValidPayload(last.data)) =>
        /\ last.resp.status = 201
        /\ last.resp.item.id.t = "int"
        /\ last.resp.item.id.v \notin DOMAIN last.pre
        /\ LET fetched == InventoryResource_get(db, nextId, remove(session),
                                                last.resp.item.id.v, "none").resp
           IN  /\ fetched.status = 200
               /\ fetched.item.id = last.resp.item.id
               /\ \A k \in Fields : fetched.item[k] = last.data[k]

C6_Witness ==
    /\ CreatePosted
    /\ last.data["name"] = StrV(Name63)
    /\ last.resp.status = 201
    /\ db[last.resp.item.id.v].name = StrV(Name63)

\* C7: a create whose payload lacks name, product_id or condition answers 400
\* and leaves the set of stored items as it was.
C7_MissingRequiredKey ==
    (/\ CreatePosted
     /\ \E k \in {"name", "product_id", "condition"} : last.data[k] = Absent) =>
        /\ last.resp.status = 400
        /\ db = last.pre

C7_Witness ==
    /\ CreatePosted
    /\ last.data["product_id"] = Absent
    /\ last.data["name"] # Absent
    /\ last.data["condition"] # Absent
    /\ last.resp.status = 400
    /\ db = last.pre

\* C8: a create whose payload has a name over 63 characters, a negative
\* quantity, a negative restock_level or a condition outside the enumeration
\* answers 400 and adds no record.
C8_InvalidValueRejected ==
    (/\ CreatePosted
     /\ \/ last.data["name"].t = "str" /\ Len(last.data["name"].v) > 63
        \/ last.data["quantity"].t = "int" /\ last.data["quantity"].v < 0
        \/ last.data["restock_level"].t = "int"
              /\ last.data["restock_level"].v < 0
        \/ last.data["condition"].t = "str"
              /\ last.data["condition"].v \notin
                    {"New", "Opened", "Used", "Refurbished"}) =>
        /\ last.resp.status = 400
        /\ db = last.pre

C8_Witness ==
    /\ CreatePosted
    /\ last.data = [BaseBody EXCEPT !["restock_level"] = IntV(-1)]
    /\ last.resp.status = 400
    /\ last.resp.message = "Restock level cannot be negative"
    /\ db = last.pre

\* C9: every stored item has a condition in {New, Opened, Used, Refurbished}.
C9_ConditionInEnumeration ==
    \A i \in DOMAIN db :
        /\ db[i].condition.t = "str"
        /\ db[i].condition.v \in {"New", "Opened", "Used", "Refurbished"}

C9_Witness ==
    /\ last.op = "put"
    /\ last.id \in DOMAIN last.pre
    /\ last.data["condition"] = StrV("Broken")
    /\ last.resp.status = 400
    /\ db[last.id].condition.v \in {"New", "Opened", "Used", "Refurbished"}

\* C10: every stored item has a name of 1 to 63 characters; a create or PUT
\* that would store an empty name is rejected.
C10_NameLengthOneTo63 ==
    \A i \in DOMAIN db :
        /\ db[i].name.t = "str"
        /\ Len(db[i].name.v) >= 1
        /\ Len(db[i].name.v) <= 63

\* C11: a create whose payload omits quantity stores the item with quantity 0,
\* and a create whose payload omits restock_level stores it with
\* restock_level 10; the supplied fields are stored as supplied.
C11_CreateDefaults ==
    (/\ CreatePosted
     /\ last.fault = "none"
     /\ \E k \in {"quantity", "restock_level"} :
            /\ last.data[k] = Absent
            /\ ValidPayload([last.data EXCEPT ![k] = IntV(0)])) =>
        /\ last.resp.status = 201
        /\ LET stored == db[last.resp.item.id.v]
           IN  /\ last.data["quantity"] = Absent => stored.quantity = IntV(0)
               /\ last.data["restock_level"] = Absent =>
                      stored.restock_level = IntV(10)
               /\ \A f \in Fields :
                      last.data[f] # Absent => stored[f] = last.data[f]
               /\ last.resp.item = serialize(stored)

C11_Witness ==
    /\ CreatePosted
    /\ last.data = [BaseBody EXCEPT !["restock_level"] = Absent]
    /\ last.resp.status = 201
    /\ db[last.resp.item.id.v].restock_level = IntV(10)
    /\ db[last.resp.item.id.v].quantity = IntV(1)

\* C12: a PUT answered 200 is a merge: every field the body supplies is stored
\* with the supplied value, every field it does not supply keeps the value
\* it had, the id is kept, and the response carries the merged item.
C12_PutMerges ==
    (last.op = "put" /\ last.resp.status = 200) =>
        /\ last.id \in DOMAIN last.pre
        /\ DOMAIN db = DOMAIN last.pre
        /\ \A k \in Fields :
              db[last.id][k] = IF last.data[k] # Absent THEN last.data[k]
                               ELSE last.pre[last.id][k]
        /\ db[last.id].id = last.pre[last.id].id
        /\ last.resp.item = serialize(db[last.id])

C12_Witness ==
    /\ last.op = "put"
    /\ last.resp.status = 200
    /\ last.data = [NoBody EXCEPT !["quantity"] = IntV(0)]
    /\ last.pre[last.id].quantity = IntV(1)
    /\ last.pre[last.id].restock_level = IntV(10)
    /\ db[last.id] = [last.pre[last.id] EXCEPT !.quantity = IntV(0)]

\* C13: a DELETE of an id that is not in the store answers 204 with an empty
\* body and changes nothing, whatever the store does; so once an id is gone
\* (deleted or never created), a further DELETE of it leaves the store as
\* the DELETE before it left it.
C13_DeleteIdempotent ==
    /\ (last.op = "delete" /\ last.id \notin DOMAIN last.pre) =>
          /\ last.resp.status = 204
          /\ last.resp.item = NoItem /\ last.resp.message = ""
          /\ db = last.pre
    /\ (last.op = "delete" /\ last.id \notin DOMAIN db) =>
          \A fault \in Faults :
              LET again == InventoryResource_delete(db, nextId, remove(session),
                                                    last.id, fault)
              IN  again.resp.status = 204 /\ again.db = db

\* The DELETE of a stored id, repeated: the second call finds nothing.
C13_Witness ==
    /\ last.op = "delete"
    /\ last.id \notin DOMAIN last.pre
    /\ last.id < nextId
    /\ last.resp.status = 204
    /\ db = last.pre

\* C14: whenever a DELETE answers 204, no item with that id is stored
\* afterwards and a GET of the id in a following request answers 404, also
\* when the lookup or the commit of the delete failed.
C14_DeletedMeansGone ==
    (last.op = "delete" /\ last.resp.status = 204) =>
        /\ last.id \notin DOMAIN db
        /\ InventoryResource_get(db, nextId, remove(session),
                                 last.id, "none").resp.status = 404

\* The serializations of the stored items with ids in S.
Stored(S) == {serialize(db[i]) : i \in S}

\* The request answered last was a list request with recognized keys only,
\* whose product_id (if any) is an integer, whose condition (if any) is one
\* the parser lets through and whose below_restock_level (if any) is true.
ListFiltered ==
    /\ last.op = "list"
    /\ ~last.data.other
    /\ last.data.product_id \in {Absent, StrV("0"), StrV("7")}
    /\ last.data.condition \in {Absent, StrV("New"), StrV("Used"),
                                 StrV("Refurbished")}
    /\ last.data.below_restock_level \in {Absent, StrV("true")}

\* C15: a list request applies exactly one filter, the supplied one of
\* highest priority in the order name, product_id, condition,
\* below_restock_level, for every supplied value (product_id = 0 and an empty
\* name included), and returns every stored item when no filter is supplied.
C15_FilterPriority ==
    ListFiltered =>
        /\ last.resp.status = 200
        /\ last.resp.items =
              IF last.data.name # Absent
                  THEN Stored({i \in DOMAIN db : db[i].name = last.data.name})
              ELSE IF last.data.product_id # Absent
                  THEN Stored({i \in DOMAIN db : db[i].product_id =
                          IntV(DecimalLiterals[last.data.product_id.v])})
              ELSE IF last.data.condition # Absent
                  THEN Stored({i \in DOMAIN db :
                                  db[i].condition = last.data.condition})
              ELSE IF last.data.below_restock_level # Absent
                  THEN Stored({i \in DOMAIN db :
                                  db[i].quantity.v < db[i].restock_level.v})
              ELSE Stored(DOMAIN db)

\* The request answered last was a list request with the one key k.
SingleFilter(k) ==
    /\ last.op = "list"
    /\ ~last.data.other
    /\ \A f \in {"name", "product_id", "condition", "below_restock_level"} :
          (last.data[f] # Absent) <=> (f = k)

\* C16: a list request with the single filter condition=c, c one of New,
\* Opened, Used and Refurbished, answers 200 with exactly the stored items
\* whose condition is c.
C16_ConditionFilter ==
    (/\ SingleFilter("condition")
     /\ last.data.condition.v \in {"New", "Opened", "Used", "Refurbished"}) =>
        /\ last.resp.status = 200
        /\ last.resp.items =
              Stored({i \in DOMAIN db : db[i].condition = last.data.condition})

\* C17: a list request with below_restock_level=true and no other filter
\* returns exactly the stored items whose quantity is strictly below their
\* restock_level; an item whose quantity equals its restock_level is not
\* returned.
C17_BelowRestockLevel ==
    (/\ SingleFilter("below_restock_level")
     /\ last.data.below_restock_level = StrV("true")) =>
        /\ last.resp.status = 200
        /\ last.resp.items =
              Stored({i \in DOMAIN db : db[i].quantity.v < db[i].restock_level.v})
        /\ \A i \in DOMAIN db :
              db[i].quantity = db[i].restock_level =>
                  serialize(db[i]) \notin last.resp.items

C17_Witness ==
    /\ SingleFilter("below_restock_level")
    /\ last.data.below_restock_level = StrV("true")
    /\ \E i, j \in DOMAIN db :
          /\ db[i].quantity.v < db[i].restock_level.v
          /\ db[j].quantity = db[j].restock_level
          /\ last.resp.items = {serialize(db[i])}

\* C18: a list request with the single filter product_id=p returns exactly
\* the stored items whose product_id is p, for every integer p, and one with
\* the single filter name=s returns exactly the stored items whose name is s,
\* compared case-sensitively.
C18_ExactMatchFilters ==
    /\ (/\ SingleFilter("product_id")
         /\ last.data.product_id.v \in DOMAIN DecimalLiterals) =>
            /\ last.resp.status = 200
            /\ last.resp.items =
                  Stored({i \in DOMAIN db : db[i].product_id =
                            IntV(DecimalLiterals[last.data.product_id.v])})
    /\ SingleFilter("name") =>
            /\ last.resp.status = 200
            /\ last.resp.items =
                  Stored({i \in DOMAIN db : db[i].name = last.data.name})

\* C19 as stated: a list request that carries a key other than the four
\* filters is answered 400 "Invalid query parameters" and returns no items,
\* whatever recognized filters accompany it.  (Requests with condition=Opened
\* are left to C16.)
C19_UnknownKeyRejected ==
    (last.op = "list" /\ last.data.other
        /\ last.data.condition # StrV("Opened")) =>
        /\ last.resp.status = 400
        /\ last.resp.message = "Invalid query parameters"
        /\ last.resp.items = {}

\* C19, amended: such a request is answered 400 and returns no items,
\* whatever recognized filters accompany it; the message is "Invalid query
\* parameters" when the parser accepts the values of the accompanying
\* filters, and the parser's own message otherwise.
C19_UnknownKeyRejectedAmended ==
    (last.op = "list" /\ last.data.other) =>
        /\ last.resp.status = 400
        /\ last.resp.items = {}
        /\ db = last.pre
        /\ last.resp.message =
              IF /\ last.data.product_id \in {Absent, StrV("0"), StrV("7")}
                 /\ last.data.condition \in
                       {Absent, StrV("New"), StrV("Used"), StrV("Refurbished")}
                 /\ last.data.below_restock_level \in {Absent, StrV("true")}
              THEN "Invalid query parameters"
              ELSE "Input payload validation failed"

C19_Witness ==
    /\ last.op = "list"
    /\ last.data = Query(StrV("Bolt"), StrV("7"), StrV("New"), StrV("true"), TRUE)
    /\ \E i \in DOMAIN db : db[i].name = StrV("Bolt")
    /\ last.resp.status = 400
    /\ last.resp.message = "Invalid query parameters"
    /\ last.resp.items = {}

\* C20 as stated: for an item x that satisfies the rules of the data model,
\* deserializing serialize(x) into an item and serializing the result gives
\* serialize(x) in all six fields, id included.
C20_RoundTrip ==
    last.op = "roundtrip" =>
        /\ last.resp.message = ""
        /\ last.resp.item = last.data

\* C20, amended: the result equals serialize(x) in name, product_id,
\* quantity, condition and restock_level; deserialize does not read the id,
\* so the id of the result is that of the item deserialized into (None for a
\* new item), whatever the id of x.
C20_RoundTripAmended ==
    last.op = "roundtrip" =>
        /\ last.resp.message = ""
        /\ \A k \in Fields : last.resp.item[k] = last.data[k]
        /\ last.resp.item.id = IF last.id = 0 THEN None ELSE IntV(last.id)

C20_Witness ==
    /\ last.op = "roundtrip"
    /\ last.data.id = IntV(1)
    /\ last.data.name = StrV(Name63)
    /\ last.data.quantity = IntV(0)
    /\ last.id = 0
    /\ last.resp.item = [last.data EXCEPT !.id = None]

\* C21: a request whose body is not declared as application/json is rejected
\* and changes nothing in the store: a create answers 415, a PUT on a stored
\* item answers 400 and a restock on a stored item answers 400.
C21_ContentTypeRequired ==
    /\ (last.op = "create" /\ ~last.json) =>
          /\ last.resp.status = 415
          /\ last.resp.message = "Content-Type must be application/json"
          /\ db = last.pre /\ nextId = last.next
    /\ (/\ last.op \in {"put", "restock"}
         /\ ~last.json
         /\ last.fault # "find"
         /\ last.id \in DOMAIN last.pre) =>
          /\ last.resp.status = 400
          /\ last.resp.message = "Content-Type must be application/json"
          /\ db = last.pre

C21_Witness ==
    /\ last.op = "create"
    /\ ~last.json
    /\ last.pre # EmptyMap
    /\ last.resp.status = 415
    /\ db = last.pre

\* C22: a PUT on an id that is not in the store answers 404 and creates no
\* record, whatever the body and the content type of the request.
C22_PutNotFound ==
    (last.op = "put" /\ last.fault # "find" /\ last.id \notin DOMAIN last.pre) =>
        /\ last.resp.status = 404
        /\ last.resp.message = "Inventory item not found."
        /\ db = last.pre
        /\ nextId = last.next

C22_Witness ==
    /\ last.op = "put"
    /\ last.json
    /\ last.id \notin DOMAIN last.pre
    /\ last.data = BaseBody
    /\ last.resp.status = 404
    /\ db = last.pre

\* C24: the checks of a restock run in order: an id that is not in the store
\* is answered 404 "Inventory item not found" whatever the payload and the
\* content type; for a stored item a body that is not JSON is answered 400;
\* only then the quantity branch or the no-quantity branch is taken.  A
\* check that fails leaves the store as it was.
C24_RestockOrder ==
    (last.op = "restock" /\ last.fault # "find") =>
        /\ last.id \notin DOMAIN last.pre =>
              /\ last.resp.status = 404
              /\ last.resp.message = "Inventory item not found"
        /\ (last.id \in DOMAIN last.pre /\ ~last.json) =>
              /\ last.resp.status = 400
              /\ last.resp.message = "Content-Type must be application/json"
        /\ (last.id \in DOMAIN last.pre /\ last.json) =>
              IF last.data["quantity"] # Absent
                  THEN last.resp.message \in
                          {"Stock level updated", "Quantity must be an integer",
                           "commit failed"}
                  ELSE last.resp.message \in
                          {"Restock alert triggered",
                           "Stock level is above the restock threshold. No action needed."}
        /\ last.resp.status \in {400, 404} => db = last.pre

C24_Witness ==
    /\ last.op = "restock"
    /\ ~last.json
    /\ last.pre # EmptyMap
    /\ last.id \notin DOMAIN last.pre
    /\ last.resp.status = 404
    /\ db = last.pre

\* C25: a restock whose quantity is present but is no integer and no decimal
\* literal answers 400 with the error "Invalid quantity provided" and leaves
\* the stored quantity of the item as it was.
C25_InvalidQuantity ==
    (/\ last.op = "restock"
     /\ last.json
     /\ last.fault # "find"
     /\ last.id \in DOMAIN last.pre
     /\ last.data["quantity"] \in {StrV("ten"), None}) =>
        /\ last.resp.status = 400
        /\ last.resp.error = "Invalid quantity provided"
        /\ last.id \in DOMAIN db
        /\ db[last.id].quantity = last.pre[last.id].quantity
        /\ db = last.pre

C25_Witness ==
    /\ last.op = "restock"
    /\ last.id \in DOMAIN last.pre
    /\ last.data["quantity"] = StrV("ten")
    /\ last.fault = "commit"
    /\ last.resp.status = 400
    /\ last.resp.error = "Invalid quantity provided"
    /\ db[last.id].quantity = IntV(1)

\* The request answered last, served without a store fault from the given
\* table, sequence and session.
Retried(store, next, sess) ==
    CASE last.op = "create" ->
            InventoryCollection_post(store, next, sess, last.json, last.data, "none")
      [] last.op = "put" ->
            InventoryResource_put(store, next, sess, last.id, last.json,
                                  last.data, "none")
      [] last.op = "restock" ->
            RestockResource_post(store, next, sess, last.id, last.json,
                                 last.data, "none")

\* The request answered last was a create, a PUT or a restock by a quantity
\* that got as far as its commit, and the commit failed.
CommitFailed ==
    /\ last.op \in {"create", "put", "restock"}
    /\ last.fault = "commit"
    /\ last.op = "restock" => last.data["quantity"] # Absent
    /\ Retried(last.pre, last.next, EmptyMap).resp.status \in {200, 201}

\* C26: when the commit of a create, a PUT or a restock fails, the request
\* answers with an error (400 for create and PUT, 500 with the cause for
\* restock) and nothing of it is visible: the table and the id sequence are
\* as before, every read in a later request answers as before, and the same
\* request served later without a fault has the result it would have had.
C26_AtomicWrites ==
    CommitFailed =>
        /\ last.resp.status = IF last.op = "restock" THEN 500 ELSE 400
        /\ last.resp.message = "commit failed"
        /\ db = last.pre
        /\ nextId = last.next
        /\ \A id \in RequestIds :
              InventoryResource_get(db, nextId, remove(session), id, "none").resp
                = InventoryResource_get(last.pre, last.next, EmptyMap, id, "none").resp
        /\ Retried(db, nextId, remove(session))
              = Retried(last.pre, last.next, EmptyMap)

C26_Witness ==
    /\ CommitFailed
    /\ last.op = "restock"
    /\ last.data["quantity"] = IntV(1)
    /\ last.pre[last.id].quantity = IntV(0)
    /\ last.resp.status = 500
    /\ db[last.id].quantity = IntV(0)
    /\ session = EmptyMap

\* C27: a restock without a quantity on an item whose quantity is below its
\* restock_level performs a persistence step, and when that step fails the
\* request answers 500 with the failure's message instead of 200.
C27_AutoRestockFailure ==
    (/\ last.op = "restock"
     /\ last.json
     /\ last.fault = "commit"
     /\ last.id \in DOMAIN last.pre
     /\ last.data["quantity"] = Absent
     /\ last.pre[last.id].quantity.v < last.pre[last.id].restock_level.v) =>
        /\ last.resp.status = 500
        /\ last.resp.message = "commit failed"

\* ------------------------------------------------------------------ C23
\* C23: no two stored items share an id (every row carries the id it is
\* stored under), every stored id was handed out by the sequence, the
\* sequence never steps back, and a successful create hands out the id the
\* sequence stood at before the request: an id that no row has and that is
\* above every id handed out earlier, whether or not the item that had an
\* earlier id was deleted and whether or not the payload carries an id.
C23_IdsUniqueNeverReused ==
    /\ \A i \in DOMAIN db : db[i].id = IntV(i) /\ i < nextId
    /\ last.op # "idle" =>
        /\ nextId >= last.next
        /\ \A i \in DOMAIN last.pre : i < last.next
    /\ (last.op = "create" /\ last.resp.status = 201) =>
        /\ last.resp.item.id = IntV(last.next)
        /\ last.next \notin DOMAIN last.pre
        /\ last.next \in DOMAIN db
        /\ nextId = last.next + 1

\* A create whose payload carries id 1 is served after the item that had
\* id 1 was deleted, and the new item gets id 2.
C23_Witness ==
    /\ last.op = "create"
    /\ last.resp.status = 201
    /\ last.data["id"] = IntV(1)
    /\ last.next = 2
    /\ 1 \notin DOMAIN last.pre
    /\ last.resp.item.id = IntV(2)
    /\ DOMAIN db = {2}

\* ------------------------------------------------------------------ C28
\* C28: after a PUT or a restock on a stored item, answered with success or
\* with an error, a lookup of the item's id in a new request finds an item
\* that carries this id, a successful PUT shows this id in its response,
\* and a lookup of any other id finds only an item that was stored under
\* that id before the request and carries it: the item is found under no
\* other id, also when the body of the PUT carries another id.
C28_IdImmutable ==
    (last.op \in {"put", "restock"} /\ last.id \in DOMAIN last.pre) =>
        /\ LET item == find(db, remove(session), last.id)
           IN  item.found /\ item.obj.id = IntV(last.id)
        /\ \A j \in RowIds \ {last.id} :
               LET other == find(db, remove(session), j)
               IN  other.found =>
                       /\ j \in DOMAIN last.pre
                       /\ other.obj.id = IntV(j)
                       /\ other.obj.id = last.pre[j].id
        /\ (last.op = "put" /\ last.resp.status = 200) =>
               last.resp.item.id = IntV(last.id)

\* A PUT on item 1 whose body carries id 2, which no stored item has, is
\* answered 200 with the new name, and the item is stored under id 1 only.
C28_Witness ==
    /\ last.op = "put"
    /\ last.id = 1
    /\ last.data["id"] = IntV(2)
    /\ last.resp.status = 200
    /\ last.resp.item.id = IntV(1)
    /\ last.pre[1].name # db[1].name
    /\ DOMAIN db = {1}

\* ------------------------------------------------------------------ C29
\* C29: a create, PUT, restock or delete changes at most the item it is
\* about (the item with the request's id, for a create the item with the id
\* the sequence hands out): every other id has an item after the request
\* exactly when it had one before, and that item has the same six field
\* values.
C29_Target == IF last.op = "create" THEN last.next ELSE last.id

C29_OnlyTargetChanges ==
    last.op \in {"create", "put", "restock", "delete"} =>
        \A i \in (DOMAIN last.pre \cup DOMAIN db) \ {C29_Target} :
            /\ i \in DOMAIN last.pre
            /\ i \in DOMAIN db
            /\ \A k \in Fields \cup {"id"} : db[i][k] = last.pre[i][k]
            /\ serialize(db[i]) = serialize(last.pre[i])

\* A PUT on item 2 is answered 200 and changes item 2, while item 1 is
\* stored before and after it with the same values.
C29_Witness ==
    /\ last.op = "put"
    /\ last.id = 2
    /\ last.resp.status = 200
    /\ DOMAIN last.pre = {1, 2}
    /\ DOMAIN db = {1, 2}
    /\ db[2] # last.pre[2]
    /\ db[1] = last.pre[1]

\* ------------------------------------------------------------------ C30
\* C30: when two restock requests with amounts on the same stored item have
\* both been answered 200, whatever the order of their steps was, the
\* stored quantity is the quantity the item had when they arrived plus
\* both amounts.
C30_NoLostIncrement ==
    (/\ \A r \in Requests :
            /\ last[r].pc = "done"
            /\ last[r].resp.status = 200
            /\ last[r].data["quantity"] # Absent
     /\ last[1].id = last[2].id
     /\ last[1].id \in DOMAIN last[1].pre)
    => /\ last[1].id \in DOMAIN db
       /\ db[last[1].id].quantity.v =
              last[1].pre[last[1].id].quantity.v
              + int(last[1].data["quantity"]).n
              + int(last[2].data["quantity"]).n
====
